---- MODULE Spec2Model ----
(***************************************************************************)
(* Model of list_executions.py: the execution scan get_executions          *)
(* (paginated listing, time cutoff with early return, per-execution detail *)
(* fetch, JSON field filters), Discovery get_state_machines, and the entry *)
(* point main (working set, rendering, catch-all, exit status).            *)
(*                                                                         *)
(* The Step Functions service is the environment: it owns the paged        *)
(* listing of a state machine, answers describe_execution, and may fail    *)
(* any call with a ClientError.  Time is counted in whole hours.  The      *)
(* --region option only selects the endpoint and is left out.              *)
(***************************************************************************)
EXTENDS Integers, Sequences, FiniteSets, TLC

\* ---- bounds of the model ------------------------------------------------
MaxExecs == 3        \* executions in one listing (ScanSpec)
MaxPayloads == 2     \* executions in one listing (FilterSpec)
MaxMainExecs == 2    \* executions in one listing (Spec, the whole program)
MaxMachines == 2     \* state machines Discovery returns
MaxTime == 2         \* the clock reads 0..MaxTime
MaxHours == 2        \* --hours ranges over 1..MaxHours

\* ---- Python values (what json.loads returns, what the filters are) ------
\* A str is a sequence of characters, so that `in` is computed.
PyNone == [type |-> "NoneType", str |-> <<>>, items |-> <<>>, fields |-> <<>>]
PyStr(s) == [type |-> "str", str |-> s, items |-> <<>>, fields |-> <<>>]
PyInt(s) == [type |-> "int", str |-> s, items |-> <<>>, fields |-> <<>>]
PyList(xs) == [type |-> "list", str |-> <<>>, items |-> xs, fields |-> <<>>]
PyDict(f) == [type |-> "dict", str |-> <<>>, items |-> <<>>, fields |-> f]

None == PyNone

\* ---- document texts (the `input` strings) -------------------------------
\* A text is known by its layout and, when it is JSON, by the value it
\* denotes: "compact" is JSON as the caller sent it, "indent4" is the layout
\* json.dumps(.., indent=4) writes, "plain" is text that is not JSON.
Compact(v) == [layout |-> "compact", raw |-> "", value |-> v]
Indent4(v) == [layout |-> "indent4", raw |-> "", value |-> v]
Plain(s) == [layout |-> "plain", raw |-> s, value |-> PyNone]

\* json.loads succeeds on JSON text only (otherwise JSONDecodeError)
IsJSON(text) == text.layout \in {"compact", "indent4"}
\* json.loads(text), for JSON text
Loads(text) == text.value
\* json.dumps(v, indent=4)
Dumps(v) == Indent4(v)

\* dict.get(k, default)
Get(d, k, default) == IF k \in DOMAIN d.fields THEN d.fields[k] ELSE default

\* needle occurs in hay as a contiguous run (str.__contains__)
IsSubstring(needle, hay) ==
    \E i \in 0..(Len(hay) - Len(needle)) :
        \A j \in 1..Len(needle) : hay[i + j] = needle[j]

\* x supports `in` with a str on the left: a str or a list of the model's
\* values (anything else raises TypeError)
SupportsIn(x) == x.type \in {"str", "list"}
\* needle in x
In(needle, x) ==
    IF x.type = "str" THEN IsSubstring(needle.str, x.str)
    ELSE \E i \in 1..Len(x.items) : x.items[i] = needle

\* startDate.strftime('%Y-%m-%d %H:%M:%S')
Strftime(t) == [format |-> "%Y-%m-%d %H:%M:%S", hour |-> t]

\* ---- the service's data ---------------------------------------------------
Str_a == <<"a">>
Str_ab == <<"a", "b">>
Str_b == <<"b">>
Str_empty == <<>>

\* {"name":"a","key":"ab"}
ObjNameKey == PyDict([name |-> PyStr(Str_a), key |-> PyStr(Str_ab)])
\* {"name":"b"}
ObjNameOnly == PyDict([name |-> PyStr(Str_b)])
\* {"name":"a","key":["a"]}
ObjKeyList == PyDict([name |-> PyStr(Str_a), key |-> PyList(<<PyStr(Str_a)>>)])
\* {"key":5}
ObjKeyInt == PyDict([key |-> PyInt(<<"5">>)])
\* ["a"]
ArrayDoc == PyList(<<PyStr(Str_a)>>)

\* describe_execution responses: a dict with or without an 'input' entry
WithInput(text) == [input |-> text]
NoInput == <<>>

\* responses of the worlds that vary the listing
ListingPayloads ==
    { WithInput(Compact(ObjNameKey)), WithInput(Plain("<binary>")),
      WithInput(Compact(ArrayDoc)) }
\* responses of the worlds that run the whole program
MainPayloads == { WithInput(Compact(ObjNameKey)), WithInput(Compact(ArrayDoc)) }
\* --name of those worlds: absent, or a name no input carries
MainNames == {None, PyStr(Str_b)}
\* responses of the worlds that vary the input
FilterPayloads ==
    { WithInput(Compact(ObjNameKey)), WithInput(Indent4(ObjNameKey)),
      WithInput(Compact(ObjNameOnly)), WithInput(Compact(ObjKeyList)),
      WithInput(Compact(ObjKeyInt)), WithInput(Compact(ArrayDoc)),
      WithInput(Plain("<binary>")), NoInput }

\* state machine ARNs; argparse leaves --state-machine at None when it is not
\* given, and main only tests its truth (line 87), so the empty value stands
\* for None as well
Arn(i) == <<"arn:stateMachine", i>>
NoStateMachine == <<>>

StatusPool == <<"SUCCEEDED", "FAILED">>
\* the status the service holds for the i-th execution of a listing that was
\* requested with the given --status
StatusAt(i, status) ==
    IF status = "ALL" THEN StatusPool[((i - 1) % Len(StatusPool)) + 1] ELSE status

\* all ways to cut k items into non-empty pages (the page sizes)
RECURSIVE PageSizes(_)
PageSizes(k) ==
    IF k = 0 THEN {<<>>}
    ELSE UNION { { <<h>> \o r : r \in PageSizes(k - h) } : h \in 1..k }

RECURSIVE Chunk(_, _)
Chunk(flat, sizes) ==
    IF sizes = <<>> THEN <<>>
    ELSE <<SubSeq(flat, 1, Head(sizes))>>
         \o Chunk(SubSeq(flat, Head(sizes) + 1, Len(flat)), Tail(sizes))

\* the listings of one state machine with at most n executions: any start
\* times in any order, any paging; an empty listing is one empty page
Listings(arn, status, n) ==
    UNION { UNION { { IF k = 0 THEN << <<>> >>
                      ELSE Chunk([i \in 1..k |->
                                    [executionArn |-> <<arn, i>>, name |-> i,
                                     status |-> StatusAt(i, status),
                                     startDate |-> times[i]]], sizes)
                      : sizes \in PageSizes(k) }
                    : times \in [1..k -> 0..MaxTime] }
            : k \in 0..n }

RECURSIVE Flatten(_)
Flatten(pages) == IF pages = <<>> THEN <<>> ELSE Head(pages) \o Flatten(Tail(pages))

\* the order list_executions documents: start time descending
Descending(pages) ==
    LET flat == Flatten(pages) IN
    \A i \in 1..(Len(flat) - 1) : flat[i].startDate >= flat[i + 1].startDate

\* the listings the service itself gives, those that fit one page
ServiceListings(arn, status, n) ==
    { l \in Listings(arn, status, n) : Descending(l) /\ Len(l) = 1 }

\* ---- state -----------------------------------------------------------------
VARIABLES
    now,             \* the service clock, datetime.now(timezone.utc)
    payloads,        \* the describe_execution responses this world can give
    listing,         \* the pages list_executions holds for the current call
    \* get_executions
    call,            \* its parameters
    spc,             \* where it is: idle, called, paginate, page, returned, raised
    start_time,      \* the cutoff, line 28
    paginator_args,  \* lines 31-35
    pageNo,          \* pages received so far; the current page is listing[pageNo]
    idx,             \* index in the current page of the execution under the loop
    executions,      \* the accumulated result
    requests,        \* the page requests sent, by their arguments
    described,       \* the describe_execution calls made, with their responses
    exc,             \* the exception in flight ("None" when there is none)
    \* main
    args,            \* the parsed command line
    mpc,             \* where it is: direct (not running), start, loop, scanning, done
    state_machines,  \* the working set
    smi,             \* index in the working set of the next state machine
    out,             \* the lines printed
    calls,           \* the state machines get_executions was called for
    scanned,         \* what each completed call returned
    exit_status      \* main's return value (-1 while it runs)

scanVars == <<call, spc, start_time, paginator_args, pageNo, idx, executions,
              requests, described, exc>>
mainVars == <<args, mpc, state_machines, smi, out, calls, scanned, exit_status>>
vars == <<now, payloads, listing, scanVars, mainVars>>

\* ---- get_executions ---------------------------------------------------------
\* lines 31-35 (first, the arguments had the test of line 34 been left out)
PaginatorArgsAlways(state_machine_arn, status) ==
    [stateMachineArn |-> state_machine_arn, statusFilter |-> status]
PaginatorArgs(state_machine_arn, status) ==
    IF status # "ALL"
    THEN [stateMachineArn |-> state_machine_arn, statusFilter |-> status]
    ELSE [stateMachineArn |-> state_machine_arn]

\* line 39 (first, the comparison with > and with a cutoff one hour early)
InWindowStrict(execution, cutoff) == execution.startDate > cutoff
InWindowLoose(execution, cutoff) == execution.startDate >= cutoff - 1
InWindow(execution, cutoff) == execution.startDate >= cutoff

\* line 48 (first, the test had a missing `name` been let through)
NameMismatchAbsentPasses(input_data, name_filter) ==
    /\ name_filter # None
    /\ Get(input_data, "name", name_filter) # name_filter
NameMismatch(input_data, name_filter) ==
    /\ name_filter # None
    /\ Get(input_data, "name", PyNone) # name_filter

\* line 50
KeyMismatch(input_data, key_filter) ==
    /\ key_filter # None
    /\ ~In(key_filter, Get(input_data, "key", PyStr(<<>>)))

Appended(text) == [result |-> "append", formatted_input |-> text, exc |-> "None"]
Continued == [result |-> "continue", formatted_input |-> Plain(""), exc |-> "None"]
Raised(e) == [result |-> "raise", formatted_input |-> Plain(""), exc |-> e]

\* lines 54-58 (first, the handler had it skipped every such record)
ExceptBlockDrops(execution_details, name_filter, key_filter) == Continued
ExceptBlock(execution_details, name_filter, key_filter) ==
    LET formatted_input ==
            IF "input" \in DOMAIN execution_details
            THEN execution_details.input
            ELSE Plain("No input available")
    IN  IF name_filter # None \/ key_filter # None
        THEN Continued
        ELSE Appended(formatted_input)

\* lines 44-58: what one pass through the try statement comes to
TryBlock(execution_details, name_filter, key_filter) ==
    IF "input" \notin DOMAIN execution_details          \* KeyError
    THEN ExceptBlock(execution_details, name_filter, key_filter)
    ELSE IF ~IsJSON(execution_details.input)            \* JSONDecodeError
    THEN ExceptBlock(execution_details, name_filter, key_filter)
    ELSE LET input_data == Loads(execution_details.input) IN
         IF name_filter # None /\ input_data.type # "dict"
         THEN Raised("AttributeError")                  \* no .get
         ELSE IF NameMismatch(input_data, name_filter)
         THEN Continued
         ELSE IF key_filter # None /\ input_data.type # "dict"
         THEN Raised("AttributeError")
         ELSE IF key_filter # None
                 /\ ~SupportsIn(Get(input_data, "key", PyStr(<<>>)))
         THEN Raised("TypeError")                       \* not iterable
         ELSE IF KeyMismatch(input_data, key_filter)
         THEN Continued
         ELSE Appended(Dumps(input_data))

\* lines 60-66
Record(execution, state_machine_arn, formatted_input) ==
    [name |-> execution.name,
     status |-> execution.status,
     start_date |-> Strftime(execution.startDate),
     state_machine_arn |-> state_machine_arn,
     input |-> formatted_input]

Current == listing[pageNo][idx]

\* the inner for-loop moves on: next execution, or next page after the last
Advance ==
    /\ idx' = idx + 1
    /\ spc' = IF idx = Len(listing[pageNo]) THEN "paginate" ELSE "page"

\* lines 24-35: the client, the cutoff, the paginator and its arguments
Enter ==
    /\ spc = "called"
    /\ start_time' = now - call.hours
    /\ paginator_args' = PaginatorArgs(call.state_machine_arn, call.status)
    /\ executions' = <<>>
    /\ spc' = "paginate"
    /\ UNCHANGED <<now, payloads, listing, call, pageNo, idx, requests,
                   described, exc, mainVars>>

\* line 37: the paginator requests the next page and receives it
FetchPage ==
    /\ spc = "paginate"
    /\ pageNo < Len(listing)
    /\ requests' = Append(requests, paginator_args)
    /\ pageNo' = pageNo + 1
    /\ idx' = 1
    /\ spc' = IF listing[pageNo + 1] = <<>> THEN "paginate" ELSE "page"
    /\ UNCHANGED <<now, payloads, listing, call, start_time, paginator_args,
                   executions, described, exc, mainVars>>

\* line 37: the request fails; nothing in get_executions catches it
FetchPageFails ==
    /\ spc = "paginate"
    /\ pageNo < Len(listing)
    /\ requests' = Append(requests, paginator_args)
    /\ exc' = "ClientError"
    /\ spc' = "raised"
    /\ UNCHANGED <<now, payloads, listing, call, start_time, paginator_args,
                   pageNo, idx, executions, described, mainVars>>

\* lines 37, 71: the last page carried no token; return executions
Exhausted ==
    /\ spc = "paginate"
    /\ pageNo = Len(listing)
    /\ spc' = "returned"
    /\ UNCHANGED <<now, payloads, listing, call, start_time, paginator_args,
                   pageNo, idx, executions, requests, described, exc, mainVars>>

\* lines 67-69: the execution started before the cutoff; return executions
\* (first, the branch had it gone on with the next execution)
CutoffContinues ==
    /\ spc = "page"
    /\ ~InWindow(Current, start_time)
    /\ Advance
    /\ UNCHANGED <<now, payloads, listing, call, start_time, paginator_args,
                   pageNo, executions, requests, described, exc, mainVars>>
Cutoff ==
    /\ spc = "page"
    /\ ~InWindow(Current, start_time)
    /\ spc' = "returned"
    /\ UNCHANGED <<now, payloads, listing, call, start_time, paginator_args,
                   pageNo, idx, executions, requests, described, exc, mainVars>>

\* lines 39-43: describe_execution fails; nothing in get_executions catches it
DescribeFails ==
    /\ spc = "page"
    /\ InWindow(Current, start_time)
    /\ described' = Append(described, [executionArn |-> Current.executionArn,
                                       ok |-> FALSE, response |-> NoInput])
    /\ exc' = "ClientError"
    /\ spc' = "raised"
    /\ UNCHANGED <<now, payloads, listing, call, start_time, paginator_args,
                   pageNo, idx, executions, requests, mainVars>>

\* lines 39-66: the execution is in the window, its detail is fetched, and
\* the try statement lets it through: the record is appended
Keep ==
    /\ spc = "page"
    /\ InWindow(Current, start_time)
    /\ \E execution_details \in payloads :
        LET t == TryBlock(execution_details, call.name_filter, call.key_filter) IN
        /\ t.result = "append"
        /\ described' = Append(described, [executionArn |-> Current.executionArn,
                                           ok |-> TRUE, response |-> execution_details])
        /\ executions' = Append(executions,
                Record(Current, call.state_machine_arn, t.formatted_input))
    /\ Advance
    /\ UNCHANGED <<now, payloads, listing, call, start_time, paginator_args,
                   pageNo, requests, exc, mainVars>>

\* lines 39-58: ... and the try statement ends in one of its `continue`s
Skip ==
    /\ spc = "page"
    /\ InWindow(Current, start_time)
    /\ \E execution_details \in payloads :
        /\ TryBlock(execution_details, call.name_filter, call.key_filter).result
               = "continue"
        /\ described' = Append(described, [executionArn |-> Current.executionArn,
                                           ok |-> TRUE, response |-> execution_details])
    /\ Advance
    /\ UNCHANGED <<now, payloads, listing, call, start_time, paginator_args,
                   pageNo, executions, requests, exc, mainVars>>

\* lines 39-51: ... and a filter expression raises what the except clause
\* does not name
Crash ==
    /\ spc = "page"
    /\ InWindow(Current, start_time)
    /\ \E execution_details \in payloads :
        LET t == TryBlock(execution_details, call.name_filter, call.key_filter) IN
        /\ t.result = "raise"
        /\ described' = Append(described, [executionArn |-> Current.executionArn,
                                           ok |-> TRUE, response |-> execution_details])
        /\ exc' = t.exc
    /\ spc' = "raised"
    /\ UNCHANGED <<now, payloads, listing, call, start_time, paginator_args,
                   pageNo, idx, executions, requests, mainVars>>

ScanNext ==
    \/ Enter
    \/ FetchPage
    \/ FetchPageFails
    \/ Exhausted
    \/ Cutoff
    \/ DescribeFails
    \/ Keep
    \/ Skip
    \/ Crash

\* ---- a call of get_executions on its own -----------------------------------
NameFilters == {None, PyStr(Str_a)}
KeyFilters == {None, PyStr(Str_empty), PyStr(Str_a)}
StatusOptions == {"ALL", "FAILED"}

NoArgs == [state_machine |-> NoStateMachine, hours |-> 0, status |-> "",
           name |-> None, key_contains |-> None]
NoCall == [state_machine_arn |-> NoStateMachine, hours |-> 0, status |-> "",
           name_filter |-> None, key_filter |-> None]

DirectCall(n, responses, statuses, names, keys) ==
    /\ now = MaxTime
    /\ payloads = responses
    /\ call \in [state_machine_arn : {Arn(1)}, hours : 1..MaxHours,
                 status : statuses, name_filter : names, key_filter : keys]
    /\ listing \in Listings(call.state_machine_arn, call.status, n)
    /\ spc = "called"
    /\ start_time = 0
    /\ paginator_args = <<>>
    /\ pageNo = 0
    /\ idx = 0
    /\ executions = <<>>
    /\ requests = <<>>
    /\ described = <<>>
    /\ exc = "None"
    /\ args = NoArgs
    /\ mpc = "direct"
    /\ state_machines = <<>>
    /\ smi = 0
    /\ out = <<>>
    /\ calls = <<>>
    /\ scanned = <<>>
    /\ exit_status = -1

\* worlds that vary the listing, the paging and the status option
ScanInit ==
    DirectCall(MaxExecs, ListingPayloads, StatusOptions, NameFilters, {None})
\* worlds that vary the inputs and the filters
FilterInit ==
    DirectCall(MaxPayloads, FilterPayloads, {"ALL"}, NameFilters, KeyFilters)

ScanSpec == ScanInit /\ [][ScanNext]_vars
FilterSpec == FilterInit /\ [][ScanNext]_vars

\* ---- main --------------------------------------------------------------------
\* truth value of an optional str
Truthy(v) == v # None /\ v # PyStr(<<>>)

\* lines 92-98 (without the region line)
Banner(a) ==
    << <<"Fetching executions", <<a.status, a.hours>> >> >>
    \o (IF Truthy(a.name) THEN << <<"Filtering for name =", a.name>> >> ELSE <<>>)
    \o (IF Truthy(a.key_contains)
        THEN << <<"Filtering for key containing", a.key_contains>> >> ELSE <<>>)

\* lines 115-120
Entry(execution) ==
    << <<"Name:", execution.name>>,
       <<"Status:", execution.status>>,
       <<"Start Date:", execution.start_date>>,
       <<"Input:", "">>,
       <<"", execution.input>>,
       <<"-", 40>> >>

RECURSIVE Entries(_)
Entries(execs) ==
    IF execs = <<>> THEN <<>> ELSE Entry(Head(execs)) \o Entries(Tail(execs))

\* lines 110-120 (first, the report had the inner loop stopped after one entry)
ReportFirstOnly(state_machine, execs) ==
    IF execs # <<>>
    THEN << <<"State Machine:", state_machine>>, <<"-", 80>> >>
         \o Entry(Head(execs))
    ELSE <<>>
Report(state_machine, execs) ==
    IF execs # <<>>
    THEN << <<"State Machine:", state_machine>>, <<"-", 80>> >> \o Entries(execs)
    ELSE <<>>

\* lines 124, 126 (first, the status had the handler returned 0)
ExitStatusAlwaysZero(caught) == 0
ExitStatus(caught) == IF caught THEN 1 ELSE 0

\* lines 87-88, 92-98: the explicit target is the working set
ResolveExplicit ==
    /\ mpc = "start"
    /\ args.state_machine # NoStateMachine
    /\ state_machines' = <<args.state_machine>>
    /\ out' = out \o Banner(args)
    /\ smi' = 1
    /\ mpc' = "loop"
    /\ UNCHANGED <<now, payloads, listing, scanVars, args, calls, scanned,
                   exit_status>>

\* lines 89-98 and 9-19: get_state_machines collects every page's ARNs
Discover ==
    /\ mpc = "start"
    /\ args.state_machine = NoStateMachine
    /\ \E k \in 0..MaxMachines : \E sizes \in PageSizes(k) :
        LET pages == Chunk([i \in 1..k |-> [stateMachineArn |-> Arn(i)]], sizes)
            machines == Flatten(pages)
        IN  state_machines' = [i \in 1..Len(machines) |-> machines[i].stateMachineArn]
    /\ out' = out \o Banner(args)
    /\ smi' = 1
    /\ mpc' = "loop"
    /\ UNCHANGED <<now, payloads, listing, scanVars, args, calls, scanned,
                   exit_status>>

\* lines 14-15: a list_state_machines request fails; get_state_machines
\* catches nothing
DiscoverFails ==
    /\ mpc = "start"
    /\ args.state_machine = NoStateMachine
    /\ exc' = "ClientError"
    /\ mpc' = "raised"
    /\ UNCHANGED <<now, payloads, listing, call, spc, start_time, paginator_args,
                   pageNo, idx, executions, requests, described, args,
                   state_machines, smi, out, calls, scanned, exit_status>>

\* lines 100-108: the next state machine is handed to get_executions
CallScan ==
    /\ mpc = "loop"
    /\ smi <= Len(state_machines)
    /\ call' = [state_machine_arn |-> state_machines[smi],
                hours |-> args.hours,
                status |-> args.status,
                name_filter |-> args.name,
                key_filter |-> args.key_contains]
    /\ listing' \in ServiceListings(state_machines[smi], args.status, MaxMainExecs)
    /\ calls' = Append(calls, state_machines[smi])
    /\ spc' = "called"
    /\ mpc' = "scanning"
    /\ pageNo' = 0
    /\ idx' = 0
    /\ requests' = <<>>
    /\ described' = <<>>
    /\ UNCHANGED <<now, payloads, start_time, paginator_args, executions, exc,
                   args, state_machines, smi, out, scanned, exit_status>>

\* lines 101, 110-120: get_executions returned; its result is rendered
Render ==
    /\ mpc = "scanning"
    /\ spc = "returned"
    /\ out' = out \o Report(state_machines[smi], executions)
    /\ scanned' = Append(scanned, [state_machine |-> state_machines[smi],
                                   executions |-> executions])
    /\ smi' = smi + 1
    /\ mpc' = "loop"
    /\ spc' = "idle"
    /\ listing' = << <<>> >>
    /\ call' = NoCall
    /\ start_time' = 0
    /\ paginator_args' = <<>>
    /\ pageNo' = 0
    /\ idx' = 0
    /\ requests' = <<>>
    /\ described' = <<>>
    /\ UNCHANGED <<now, payloads, executions, exc, args, state_machines, calls,
                   exit_status>>

\* lines 122-124: whatever was raised below is caught here
Catch ==
    /\ \/ mpc = "scanning" /\ spc = "raised"
       \/ mpc = "raised"
    /\ out' = Append(out, <<"Error:", exc>>)
    /\ exit_status' = ExitStatus(TRUE)
    /\ mpc' = "done"
    /\ UNCHANGED <<now, payloads, listing, scanVars, args, state_machines, smi,
                   calls, scanned>>

\* line 126: the loop is through
Finish ==
    /\ mpc = "loop"
    /\ smi > Len(state_machines)
    /\ exit_status' = ExitStatus(FALSE)
    /\ mpc' = "done"
    /\ UNCHANGED <<now, payloads, listing, scanVars, args, state_machines, smi,
                   out, calls, scanned>>

Init ==
    /\ now = MaxTime
    /\ payloads = MainPayloads
    /\ args \in [state_machine : {NoStateMachine, Arn(1)}, hours : {1},
                 status : {"ALL"}, name : MainNames, key_contains : {None}]
    /\ mpc = "start"
    /\ state_machines = <<>>
    /\ smi = 0
    /\ out = <<>>
    /\ calls = <<>>
    /\ scanned = <<>>
    /\ exit_status = -1
    /\ listing = << <<>> >>
    /\ call = NoCall
    /\ spc = "idle"
    /\ start_time = 0
    /\ paginator_args = <<>>
    /\ pageNo = 0
    /\ idx = 0
    /\ executions = <<>>
    /\ requests = <<>>
    /\ described = <<>>
    /\ exc = "None"

Next ==
    \/ ResolveExplicit
    \/ Discover
    \/ DiscoverFails
    \/ CallScan
    \/ Enter
    \/ FetchPage
    \/ FetchPageFails
    \/ Exhausted
    \/ Cutoff
    \/ DescribeFails
    \/ Keep
    \/ Skip
    \/ Crash
    \/ Render
    \/ Catch
    \/ Finish

Spec == Init /\ [][Next]_vars

\* ---- what the properties speak of ------------------------------------------
Flat == Flatten(listing)
\* get_executions is past line 35 of the current call
Entered == spc \in {"paginate", "page", "returned", "raised"}
\* cutoff = now - hours
CutoffTime == now - call.hours
FilterSet == call.name_filter # None \/ call.key_filter # None

\* place in the whole listing of the execution the loop is at (or will be at next)
FlatPos ==
    IF pageNo = 0 THEN 1
    ELSE Len(Flatten(SubSeq(listing, 1, pageNo - 1))) + idx
\* the page that holds the i-th execution of the listing
PageOf(i) ==
    CHOOSE p \in 1..Len(listing) :
        /\ Len(Flatten(SubSeq(listing, 1, p - 1))) < i
        /\ i <= Len(Flatten(SubSeq(listing, 1, p)))
IndexOf(executionArn) ==
    LET flat == Flat IN
    CHOOSE i \in 1..Len(flat) : flat[i].executionArn = executionArn
\* the first execution of the listing that started before the cutoff
HasBoundary ==
    LET flat == Flat IN \E i \in 1..Len(flat) : flat[i].startDate < CutoffTime
Boundary ==
    LET flat == Flat IN
    CHOOSE i \in 1..Len(flat) :
        /\ flat[i].startDate < CutoffTime
        /\ \A j \in 1..(i - 1) : flat[j].startDate >= CutoffTime
\* the scan returned from inside a page, at the execution under the loop
StoppedInPage == spc = "returned" /\ pageNo >= 1 /\ idx <= Len(listing[pageNo])

\* the records the result holds for the k-th describe_execution call
RecordsOf(k) ==
    { r \in 1..Len(executions) :
        executions[r].name = Flat[IndexOf(described[k].executionArn)].name }
\* the describe_execution calls behind the r-th record
CallsOf(r) ==
    { k \in 1..Len(described) :
        /\ described[k].ok
        /\ Flat[IndexOf(described[k].executionArn)].name = executions[r].name }

\* C1: early termination.  On a listing in descending start order that has an
\* execution below the cutoff, the scan never moves past the first such
\* execution: no describe_execution call is made for it or for any execution
\* after it, no page after the one that holds it is requested, and when the
\* scan returns it returned at that execution with what it had accumulated.
C1_EarlyTermination ==
    (Entered /\ Descending(listing) /\ HasBoundary) =>
        LET boundary == Boundary IN
        /\ FlatPos <= boundary
        /\ \A k \in 1..Len(described) :
               IndexOf(described[k].executionArn) < boundary
        /\ Len(requests) <= PageOf(boundary)
        /\ Len(executions) <= boundary - 1
        /\ spc = "returned" => (StoppedInPage /\ FlatPos = boundary)

\* C1 witness: the scan returned at a boundary that has a record before it, an
\* execution after it on its page's listing and a page never requested.
C1_Witness ==
    /\ spc = "returned" /\ Descending(listing) /\ HasBoundary
    /\ Boundary > 1 /\ Len(executions) >= 1
    /\ Boundary < Len(Flat)
    /\ PageOf(Boundary) < Len(listing)
    /\ Len(requests) = PageOf(Boundary)

\* C2: lookback boundary.  Whatever the listing's order, paging, the hours and
\* the filters, no record of the result belongs to an execution that started
\* strictly before cutoff = now - hours; and an execution that started exactly
\* at the cutoff is inside the window: the scan never stops at one.
C2_LookbackBoundary ==
    Entered =>
        LET flat == Flat IN
        /\ \A r \in 1..Len(executions) :
               \A i \in 1..Len(flat) :
                   flat[i].name = executions[r].name
                       => flat[i].startDate >= CutoffTime
        /\ StoppedInPage => flat[FlatPos].startDate < CutoffTime

\* C2 witness: a listing out of order, a record of an execution that started
\* exactly at the cutoff, and the scan stopped at an older one.
C2_Witness ==
    /\ StoppedInPage
    /\ ~Descending(listing)
    /\ \E r \in 1..Len(executions) : \E i \in 1..Len(Flat) :
           Flat[i].name = executions[r].name /\ Flat[i].startDate = CutoffTime

\* the input cannot be held against the field filters
Unevaluable(response) ==
    \/ "input" \notin DOMAIN response
    \/ ~IsJSON(response.input)
    \/ Loads(response.input).type # "dict"
\* C3: with a filter set, an in-window execution whose input cannot be held
\* against the field filters (no input, malformed JSON, or JSON that is not an
\* object) is skipped: it leaves no record, and the scan does not raise on it.
C3_ParseFailureSkipped ==
    (Entered /\ FilterSet) =>
        \A k \in 1..Len(described) :
            (described[k].ok /\ Unevaluable(described[k].response)) =>
                /\ RecordsOf(k) = {}
                /\ ~(spc = "raised" /\ k = Len(described)
                     /\ exc \in {"AttributeError", "TypeError"})

\* C4: with key_filter set (the empty string included), every record of the
\* result comes from an input that parses to an object with a `key` field
\* whose value contains key_filter as a substring.
C4_KeyFilter ==
    (Entered /\ call.key_filter # None) =>
        \A r \in 1..Len(executions) :
            /\ CallsOf(r) # {}
            /\ \A k \in CallsOf(r) :
                LET response == described[k].response IN
                /\ "input" \in DOMAIN response
                /\ IsJSON(response.input)
                /\ Loads(response.input).type = "dict"
                /\ "key" \in DOMAIN Loads(response.input).fields
                /\ Loads(response.input).fields["key"].type = "str"
                /\ IsSubstring(call.key_filter.str,
                               Loads(response.input).fields["key"].str)

\* C5: with name_filter set, every record of the result comes from an input
\* that parses to an object whose `name` field equals name_filter; an input
\* without that field, with another name, or unparseable leaves no record.
C5_NameFilter ==
    (Entered /\ call.name_filter # None) =>
        \A r \in 1..Len(executions) :
            /\ CallsOf(r) # {}
            /\ \A k \in CallsOf(r) :
                LET response == described[k].response IN
                /\ "input" \in DOMAIN response
                /\ IsJSON(response.input)
                /\ Loads(response.input).type = "dict"
                /\ "name" \in DOMAIN Loads(response.input).fields
                /\ Loads(response.input).fields["name"] = call.name_filter

\* C5 witness: a scan with name_filter set returned a record and had skipped
\* an execution whose input has no `name` field.
C5_Witness ==
    /\ spc = "returned" /\ call.name_filter # None
    /\ Len(executions) >= 1
    /\ \E k \in 1..Len(described) :
           /\ described[k].response = WithInput(Compact(ObjKeyInt))
           /\ RecordsOf(k) = {}

\* the execution started at or after the cutoff
InLookback(execution) == execution.startDate >= CutoffTime
\* C6: complete, ordered result.  On a listing in descending start order and
\* with no filter, the returned list is the listing's executions that started
\* at or after the cutoff, one record each, in the listing's order, however
\* the scan ended.
C6_CompleteOrdered ==
    (spc = "returned" /\ Descending(listing) /\ ~FilterSet) =>
        LET expected == SelectSeq(Flat, InLookback) IN
        /\ Len(executions) = Len(expected)
        /\ \A r \in 1..Len(expected) :
               /\ executions[r].name = expected[r].name
               /\ executions[r].status = expected[r].status
               /\ executions[r].start_date.hour = expected[r].startDate
               /\ executions[r].state_machine_arn = call.state_machine_arn

\* C6 witness: an unfiltered scan of a descending listing ended at the cutoff
\* with two records, the second from an execution exactly at the cutoff.
C6_Witness ==
    /\ StoppedInPage /\ Descending(listing) /\ ~FilterSet
    /\ Len(executions) = 2 /\ Len(Flat) = 3
    /\ Flat[2].startDate = CutoffTime

\* line 45 ends in the except clause
FailsToParse(response) ==
    \/ "input" \notin DOMAIN response
    \/ ~IsJSON(response.input)
\* C7 as stated: with no filter, every in-window execution whose input fails
\* to parse is kept, and its record's input is the raw input string the detail
\* fetch returned.
C7_RawRetained ==
    (Entered /\ ~FilterSet) =>
        \A k \in 1..Len(described) :
            (described[k].ok /\ FailsToParse(described[k].response)) =>
                /\ RecordsOf(k) # {}
                /\ \A r \in RecordsOf(k) :
                       /\ "input" \in DOMAIN described[k].response
                       /\ executions[r].input = described[k].response.input

\* C7 amended: with no filter, every in-window execution whose input fails to
\* parse is kept; its record's input is the raw input string when the detail
\* record has one, and the text 'No input available' when it has none.
C7_RawOrPlaceholder ==
    (Entered /\ ~FilterSet) =>
        \A k \in 1..Len(described) :
            (described[k].ok /\ FailsToParse(described[k].response)) =>
                /\ Cardinality(RecordsOf(k)) = 1
                /\ \A r \in RecordsOf(k) :
                       executions[r].input =
                           IF "input" \in DOMAIN described[k].response
                           THEN described[k].response.input
                           ELSE Plain("No input available")

\* C7 witness: an unfiltered scan returned after keeping one execution whose
\* input is not JSON and one whose detail record has no input.
C7_Witness ==
    /\ spc = "returned" /\ ~FilterSet
    /\ Len(executions) = 2
    /\ \E k \in 1..Len(described) :
           described[k].response = WithInput(Plain("<binary>"))
    /\ \E k \in 1..Len(described) : described[k].response = NoInput

\* C10: status filter pass-through.  Every page request names the state
\* machine, and carries statusFilter exactly when the status option is not
\* ALL, with the requested status as its value.
C10_StatusPassThrough ==
    \A q \in 1..Len(requests) :
        /\ requests[q].stateMachineArn = call.state_machine_arn
        /\ ("statusFilter" \in DOMAIN requests[q]) <=> (call.status # "ALL")
        /\ "statusFilter" \in DOMAIN requests[q]
               => requests[q].statusFilter = call.status

\* C10 witness: two pages were requested under --status ALL.
C10_Witness ==
    /\ Len(requests) >= 2
    /\ call.status = "ALL"
    /\ "statusFilter" \notin DOMAIN requests[2]

\* ---- main's properties --------------------------------------------------------
\* one name / status / start time / input entry
ExpectedEntry(record) ==
    << <<"Name:", record.name>>, <<"Status:", record.status>>,
       <<"Start Date:", record.start_date>>, <<"Input:", "">>,
       <<"", record.input>>, <<"-", 40>> >>
ExpectedHeader(state_machine) ==
    << <<"State Machine:", state_machine>>, <<"-", 80>> >>
RECURSIVE ExpectedEntries(_)
ExpectedEntries(records) ==
    IF records = <<>> THEN <<>>
    ELSE ExpectedEntry(Head(records)) \o ExpectedEntries(Tail(records))
\* the reports of the first n completed scans, a header for each of them
RECURSIVE HeaderForEach(_)
HeaderForEach(n) ==
    IF n = 0 THEN <<>>
    ELSE HeaderForEach(n - 1) \o ExpectedHeader(scanned[n].state_machine)
         \o ExpectedEntries(scanned[n].executions)
\* ... a header only for those that returned an execution
RECURSIVE HeaderForNonEmpty(_)
HeaderForNonEmpty(n) ==
    IF n = 0 THEN <<>>
    ELSE HeaderForNonEmpty(n - 1)
         \o (IF scanned[n].executions = <<>> THEN <<>>
             ELSE ExpectedHeader(scanned[n].state_machine)
                  \o ExpectedEntries(scanned[n].executions))
\* main is past the banner and nothing was raised
Rendering == mpc \in {"loop", "scanning"} \/ (mpc = "done" /\ exit_status = 0)
\* the working set is scanned once each, in order
OncePerStateMachine ==
    /\ Len(calls) <= Len(state_machines)
    /\ calls = SubSeq(state_machines, 1, Len(calls))
    /\ Len(scanned) = smi - 1
    /\ \A i \in 1..Len(scanned) : scanned[i].state_machine = state_machines[i]
    /\ (mpc = "done" /\ exit_status = 0) => Len(scanned) = Len(state_machines)
AfterBanner == SubSeq(out, Len(Banner(args)) + 1, Len(out))

\* C8 as stated: main scans every state machine of the working set once and
\* prints, for each of them, a header followed by one entry per returned
\* execution in returned order, also for one whose scan returned nothing.
C8_HeaderPerStateMachine ==
    Rendering => (OncePerStateMachine /\ AfterBanner = HeaderForEach(Len(scanned)))

\* C8 amended: main scans the state machines of the working set once each, in
\* order, and prints, for each scan that returned at least one execution, a
\* header followed by one entry per returned execution in returned order; for
\* a scan that returned nothing it prints nothing.
C8_HeaderPerNonEmptyResult ==
    Rendering => (OncePerStateMachine /\ AfterBanner = HeaderForNonEmpty(Len(scanned)))

\* C8 witness: main finished a working set of two, one scan having returned
\* two executions and the other none.
C8_Witness ==
    /\ mpc = "done" /\ exit_status = 0
    /\ Len(scanned) = 2
    /\ \E i \in 1..2 : Len(scanned[i].executions) = 2
    /\ \E i \in 1..2 : scanned[i].executions = <<>>

\* C9: an exception raised by Discovery or by a scan is caught nowhere but in
\* main: from the moment it is raised nothing runs but main's handler, which
\* prints one error line and returns 1 without scanning another state machine;
\* when nothing is raised main returns 0, also when every scan returned nothing.
C9_ErrorHandling ==
    /\ (spc = "raised") => exc # "None"
    /\ (exc # "None") =>
           \/ mpc = "scanning" /\ spc = "raised"
           \/ mpc = "raised"
           \/ mpc = "done"
    /\ (mpc # "done") => exit_status = -1
    /\ (mpc = "done") => exit_status = (IF exc # "None" THEN 1 ELSE 0)
    /\ (mpc = "done" /\ exit_status = 1) =>
           /\ out[Len(out)] = <<"Error:", exc>>
           /\ Cardinality({ i \in 1..Len(out) : out[i][1] = "Error:" }) = 1
           /\ Len(calls) <= Len(scanned) + 1
           /\ calls = SubSeq(state_machines, 1, Len(calls))
    /\ (mpc = "done" /\ exit_status = 0) =>
           \A i \in 1..Len(out) : out[i][1] # "Error:"

\* C9 witness: the scan of the first of two state machines raised; main
\* returned 1 and never called get_executions for the second.
C9_Witness ==
    /\ mpc = "done" /\ exit_status = 1
    /\ Len(state_machines) = 2
    /\ calls = <<state_machines[1]>>
    /\ spc = "raised"

====
